---- MODULE Spec2Model ----
(***************************************************************************)
(* Model of csteg (src/src/main.c): hiding a file in the two low-order     *)
(* bits of the colour samples of a PNG raster, and recovering it.          *)
(*                                                                         *)
(* One behaviour is one image on disk together with one data file:         *)
(*   WriteData  = `csteg -w`  (write_data: decode, capacity check, embed,  *)
(*                             encode the raster back to disk)             *)
(*   ReadData   = `csteg -r`  (read_data: decode, header, filename, data)  *)
(*                                                                         *)
(* Integers of the program keep their C width.  TLC's own integers are 32  *)
(* bit signed, so a uint32_t or size_t value is a little-endian sequence   *)
(* of base-256 digits (4 digits = uint32_t, 8 digits = size_t) and the     *)
(* arithmetic on it is done digit by digit, modulo 256^digits.             *)
(***************************************************************************)
EXTENDS Integers, Sequences, FiniteSets, TLC

\* ------------------------------------------------------------------ bounds
MaxWidth == 4
MaxHeight == 4
MaxNameLen == 2
MaxPayloadLen == 2

\* ------------------------------------------------------- program constants
SIG_SIZE_BITS == 32
PNG_COLOR_TYPE_RGB == 2
PNG_COLOR_TYPE_RGBA == 6

\* ----------------------------------------------------- bit level operators
Pow2(n) == 2 ^ n

\* a & b on non-negative integers
RECURSIVE BitAnd(_, _)
BitAnd(a, b) ==
    IF a = 0 \/ b = 0 THEN 0
    ELSE (a % 2) * (b % 2) + 2 * BitAnd(a \div 2, b \div 2)

\* a | b on non-negative integers
RECURSIVE BitOr(_, _)
BitOr(a, b) ==
    IF a = 0 THEN b
    ELSE IF b = 0 THEN a
    ELSE (IF a % 2 = 1 \/ b % 2 = 1 THEN 1 ELSE 0) + 2 * BitOr(a \div 2, b \div 2)

Shl(v, n) == v * Pow2(n)
Shr(v, n) == v \div Pow2(n)

\* ------------------------------------------------ fixed width C integers
U32Digits == SIG_SIZE_BITS \div 8
SizeTDigits == 2 * U32Digits

\* the k low base-256 digits of n, least significant first (n mod 256^k)
RECURSIVE Digits(_, _)
Digits(n, k) == IF k = 0 THEN <<>> ELSE <<n % 256>> \o Digits(n \div 256, k - 1)

\* the value of a digit sequence that is known to be below 2^24
WToNat(w) == w[1] + 256 * w[2] + 65536 * w[3]

\* a + b modulo 256^Len(a)
RECURSIVE WAddFrom(_, _, _, _)
WAddFrom(a, b, j, carry) ==
    IF j > Len(a) THEN <<>>
    ELSE LET s == a[j] + b[j] + carry
         IN  <<s % 256>> \o WAddFrom(a, b, j + 1, s \div 256)

WAdd(a, b) == WAddFrom(a, b, 1, 0)

\* a * 8 modulo 256^Len(a)
RECURSIVE WMul8From(_, _, _)
WMul8From(a, j, carry) ==
    IF j > Len(a) THEN <<>>
    ELSE LET s == a[j] * 8 + carry
         IN  <<s % 256>> \o WMul8From(a, j + 1, s \div 256)

WMul8(a) == WMul8From(a, 1, 0)

\* a < b, unsigned, equal widths
RECURSIVE WLtFrom(_, _, _)
WLtFrom(a, b, j) ==
    IF j = 0 THEN FALSE
    ELSE IF a[j] # b[j] THEN a[j] < b[j]
    ELSE WLtFrom(a, b, j - 1)

WLt(a, b) == WLtFrom(a, b, Len(a))

\* a & b and a | b, digit by digit
RECURSIVE WAndFrom(_, _, _)
WAndFrom(a, b, j) ==
    IF j > Len(a) THEN <<>>
    ELSE <<BitAnd(a[j], b[j])>> \o WAndFrom(a, b, j + 1)

WAnd(a, b) == WAndFrom(a, b, 1)

RECURSIVE WOrFrom(_, _, _)
WOrFrom(a, b, j) ==
    IF j > Len(a) THEN <<>>
    ELSE <<BitOr(a[j], b[j])>> \o WOrFrom(a, b, j + 1)

WOr(a, b) == WOrFrom(a, b, 1)

\* k digits, all d
RECURSIVE Fill(_, _)
Fill(d, k) == IF k = 0 THEN <<>> ELSE <<d>> \o Fill(d, k - 1)

\* a >> (8 * n)
WShrBytes(a, n) == SubSeq(a, n + 1, Len(a)) \o Fill(0, n)

\* conversion of an unsigned value to a wider unsigned type
ZeroExt(a, k) == a \o Fill(0, k - Len(a))

\* conversion of a (signed) int to a wider unsigned type
SignExt(a, k) == a \o Fill(IF a[Len(a)] >= 128 THEN 255 ELSE 0, k - Len(a))

\* conversion to a narrower unsigned type
Trunc(a, k) == SubSeq(a, 1, k)

\* a small value shifted left into a uint32_t: v << n, modulo 2^32
ShlU32(v, n) ==
    LET s == v * Pow2(n % 8)
    IN  Trunc(Fill(0, n \div 8) \o <<s % 256, s \div 256>> \o Fill(0, U32Digits),
              U32Digits)

\* ------------------------------------------------------------ the inputs
\* file name of the data file, as passed on the command line (a C string:
\* no zero byte); prefixes of "a.t"
NameText == <<97, 46, 116, 120, 116>>
Names == {SubSeq(NameText, 1, n) : n \in 1..MaxNameLen}

PayloadBytes == {27, 228}
PayloadHeads == UNION {[1..n -> PayloadBytes] : n \in 0..MaxPayloadLen}

\* 2^29: the smallest file size whose bit count does not fit 32 bits
HalfGiB == <<0, 0, 0, 32>>
U32Max == <<255, 255, 255, 255>>

\* A data file: its size in bytes (below 2^32) and its leading bytes; a file
\* longer than its head continues with the byte 90.
DataFiles ==
    {[size |-> Digits(Len(h), U32Digits), head |-> h] : h \in PayloadHeads}
    \cup {[size |-> WAdd(HalfGiB, Digits(Len(h), U32Digits)), head |-> h] :
             h \in {g \in PayloadHeads : Len(g) <= 1}}
    \cup {[size |-> U32Max, head |-> <<>>]}

FileByte(file, pos) ==
    IF pos < Len(file.head) THEN file.head[pos + 1] ELSE 90

\* colour type and bit depth combinations of a PNG header (0: greyscale)
ImageKinds ==
    { <<PNG_COLOR_TYPE_RGB, 8>>, <<PNG_COLOR_TYPE_RGB, 16>>,
      <<PNG_COLOR_TYPE_RGBA, 8>>, <<PNG_COLOR_TYPE_RGBA, 16>>,
      <<0, 8>> }

Channels(ct) ==
    CASE ct = PNG_COLOR_TYPE_RGB -> 3
      [] ct = PNG_COLOR_TYPE_RGBA -> 4
      [] OTHER -> 1

\* png_get_rowbytes: bytes of one decoded row
RowBytes(w, ct, depth) == (w * Channels(ct) * depth) \div 8

\* sample values of the input image: all zero, all ones, and a mixed one
GridPatterns == 1..3
Pattern(p, idx) ==
    CASE p = 1 -> 0
      [] p = 2 -> 255
      [] OTHER -> (idx * 7 + 3) % 256

\* ------------------------------------------------------------- the state
VARIABLES
    width, height,        \* globals set by read_png_file
    color_type, bit_depth,
    row_pointers,         \* raster of the image on disk (decoded form)
    in_rows,              \* raster of the input image, before any embed
    data_filename,        \* write_data: name of the data file
    data_file,            \* write_data: the data file
    wr_status,            \* outcome of write_data
    signature,            \* write_data: the block generate_signature filled
    max_data_bits,        \* write_data locals (size_t)
    required_data_bits,
    wr_chunks,            \* number of 2-bit chunks write_data stored
    rd_status,            \* outcome of read_data
    data_filename_length, \* read_data locals (uint32_t)
    data_file_size,
    rd_filename,          \* read_data: the C string at data_filename (its
                          \* first bytes, when the block was not filled)
    rd_data,              \* read_data: the bytes assembled into data, the
                          \* first of the data_file_size bytes written out
    rd_reads              \* read_data: the samples read, <<row, offset>>

vars == <<width, height, color_type, bit_depth, row_pointers, in_rows,
          data_filename, data_file, wr_status, signature, max_data_bits,
          required_data_bits, wr_chunks, rd_status, data_filename_length,
          data_file_size, rd_filename, rd_data, rd_reads>>

ZeroU32 == Digits(0, U32Digits)
ZeroSizeT == Digits(0, SizeTDigits)

Init ==
    /\ width \in 3..MaxWidth
    /\ height \in 3..MaxHeight
    /\ \E k \in ImageKinds : color_type = k[1] /\ bit_depth = k[2]
    /\ \E p \in GridPatterns :
          row_pointers =
             [y \in 0..(height - 1) |->
                [o \in 0..(RowBytes(width, color_type, bit_depth) - 1) |->
                    Pattern(p, y * RowBytes(width, color_type, bit_depth) + o)]]
    /\ in_rows = row_pointers
    /\ data_filename \in Names
    /\ data_file \in DataFiles
    /\ wr_status = "none"
    /\ signature = <<>>
    /\ max_data_bits = ZeroSizeT
    /\ required_data_bits = ZeroSizeT
    /\ wr_chunks = 0
    /\ rd_status = "none"
    /\ data_filename_length = ZeroU32
    /\ data_file_size = ZeroU32
    /\ rd_filename = <<>>
    /\ rd_data = <<>>
    /\ rd_reads = {}

\* ------------------------------------------------------- read_png_file
\* the colour type test of read_png_file; the bit depth is stored, not tested
ColorTypeAccepted(ct) == ct = PNG_COLOR_TYPE_RGB \/ ct = PNG_COLOR_TYPE_RGBA

\* ---------------------------------------------------- generate_signature
\* the int constant 0xFF << (i * 8), as its 32 bit pattern
ByteMaskInt(i) == Fill(0, i) \o <<255>> \o Fill(0, U32Digits - 1 - i)

\* byte i of a size_t value: (v & (0xFF << (i * 8))) >> (i * 8), as uint8_t
SizeTByte(v, i) ==
    Trunc(WShrBytes(WAnd(v, SignExt(ByteMaskInt(i), SizeTDigits)), i), 1)[1]

\* byte i of a uint32_t value, same expression
U32Byte(v, i) ==
    Trunc(WShrBytes(WAnd(v, ByteMaskInt(i)), i), 1)[1]

\* variant: the size loops counting up, least significant byte first
SizeLoopIndexAscending(k) == k - 1

\* the loop index of the two size loops at step k: 3, 2, 1, 0
SizeLoopIndex(k) == (SIG_SIZE_BITS \div 8) - k

\* the loops "write filename_length" and "write file_length", from step k on
RECURSIVE SizeTBytes(_, _)
SizeTBytes(v, k) ==
    IF k > U32Digits THEN <<>>
    ELSE <<SizeTByte(v, SizeLoopIndex(k))>> \o SizeTBytes(v, k + 1)

RECURSIVE U32Bytes(_, _)
U32Bytes(v, k) ==
    IF k > U32Digits THEN <<>>
    ELSE <<U32Byte(v, SizeLoopIndex(k))>> \o U32Bytes(v, k + 1)

generate_signature(filename, file_size) ==
    LET filename_length == Digits(Len(filename), SizeTDigits)
    IN  SizeTBytes(filename_length, 1) \o U32Bytes(file_size, 1) \o filename

\* the return value of generate_signature
sig_length(filename) == (SIG_SIZE_BITS \div 8) * 2 + Len(filename)

\* ------------------------------------------------------ the address scheme
ByteOffset(i) == i \div 6
BitOffset(i) == 6 - (i % 8)
ColorOffset(i) == (i \div 2) % 3
PixelX(i, w) == ByteOffset(i) % w
PixelY(i, w) == ByteOffset(i) \div w

\* variant: every pixel taken to have 3 samples
PixelBaseThree(ct, x) == x * 3

\* offset of the pixel in its row: 4 samples a pixel for RGBA, 3 for RGB
PixelBase(ct, x) == IF ct = PNG_COLOR_TYPE_RGBA THEN x * 4 ELSE x * 3

SampleOffset(i, w, ct) == PixelBase(ct, PixelX(i, w)) + ColorOffset(i)

\* ------------------------------------------------------------ write_data
DataChunk(data_byte, bit_offset) ==
    Shr(BitAnd(data_byte, Shl(3, bit_offset)), bit_offset)

\* variant: the mask 0xF0 in place of 0xFC
StoreChunkWideMask(sample, data_chunk) == BitOr(BitAnd(sample, 240), data_chunk)

\* pixel[color_offset] &= 0xFC; pixel[color_offset] |= data_chunk;
StoreChunk(sample, data_chunk) == BitOr(BitAnd(sample, 252), data_chunk)

EmbedChunk(rows, i, data_byte, w, ct) ==
    [rows EXCEPT ![PixelY(i, w)][SampleOffset(i, w, ct)] =
        StoreChunk(@, DataChunk(data_byte, BitOffset(i)))]

\* the loop "write signature"
RECURSIVE WriteSignatureLoop(_, _, _, _, _, _)
WriteSignatureLoop(rows, i, stop, sig, w, ct) ==
    IF i >= stop THEN rows
    ELSE WriteSignatureLoop(
            EmbedChunk(rows, i, sig[(i \div 8) + 1], w, ct),
            i + 2, stop, sig, w, ct)

\* fread(&data_byte, 1, 1, file_ptr): at end of file data_byte is kept
FRead(file, pos, data_byte) ==
    IF WLt(Digits(pos, U32Digits), file.size) THEN FileByte(file, pos)
    ELSE data_byte

\* the loop "write data"; pos counts the bytes fread has delivered
RECURSIVE WriteFileLoop(_, _, _, _, _, _, _, _)
WriteFileLoop(rows, i, stop, data_byte, file, pos, w, ct) ==
    IF i >= stop THEN rows
    ELSE WriteFileLoop(
            EmbedChunk(rows, i, data_byte, w, ct),
            i + 2, stop,
            IF BitOffset(i) = 0 THEN FRead(file, pos, data_byte) ELSE data_byte,
            file,
            IF BitOffset(i) = 0 THEN pos + 1 ELSE pos,
            w, ct)

\* uint32_t size = ftell(file_ptr)
FileSize(file) == file.size

\* size_t max_data_bits = width * height * 6
MaxDataBits(w, h) == Digits(w * h * 6, SizeTDigits)

\* size_t required_data_bits = sig_size * 8 + size * 8: the second product
\* is a product of a uint32_t and an int, taken modulo 2^32
RequiredDataBits(sig_size, size) ==
    WAdd(WMul8(Digits(sig_size, SizeTDigits)), ZeroExt(WMul8(size), SizeTDigits))

EmbedAll(rows, sig, file, required, w, ct) ==
    LET sig_bits == Len(sig) * 8
        afterSig == WriteSignatureLoop(rows, 0, sig_bits, sig, w, ct)
        first == FRead(file, 0, sig[Len(sig)])
    IN  WriteFileLoop(afterSig, sig_bits, required, first, file, 1, w, ct)

WriteData ==
    /\ wr_status = "none"
    /\ rd_status = "none"
    /\ IF ~ColorTypeAccepted(color_type)
       THEN /\ wr_status' = "abort_color_type"
            /\ UNCHANGED <<row_pointers, signature, max_data_bits,
                           required_data_bits, wr_chunks>>
       ELSE \E size \in {FileSize(data_file)} :
            \E sig \in {generate_signature(data_filename, size)},
               sig_size \in {sig_length(data_filename)},
               maxb \in {MaxDataBits(width, height)} :
            \E req \in {RequiredDataBits(sig_size, size)} :
                /\ signature' = sig
                /\ max_data_bits' = maxb
                /\ required_data_bits' = req
                /\ IF WLt(maxb, req)
                   THEN /\ wr_status' = "abort_too_small"
                        /\ UNCHANGED <<row_pointers, wr_chunks>>
                   ELSE /\ wr_status' = "written"
                        /\ wr_chunks' = WToNat(req) \div 2
                        /\ row_pointers' =
                              EmbedAll(row_pointers, sig, data_file,
                                       WToNat(req), width, color_type)
    /\ UNCHANGED <<width, height, color_type, bit_depth, in_rows,
                   data_filename, data_file, rd_status, data_filename_length,
                   data_file_size, rd_filename, rd_data, rd_reads>>

\* ------------------------------------------------------------- read_data
ReadChunk(rows, i, w, ct) ==
    BitAnd(rows[PixelY(i, w)][SampleOffset(i, w, ct)], 3)

\* variant: the first chunk read lands in the least significant position
HeaderBitOffsetLowFirst(i, stop) == i - (stop - SIG_SIZE_BITS)

\* bit_offset of the two header loops: (SIG_SIZE_BITS-2) - i for the file
\* name length, (SIG_SIZE_BITS*2-2) - i for the file size
HeaderBitOffset(i, stop) == (stop - 2) - i

\* the loops "read in length of filename" and "read in length of file":
\* value |= ((pixel[color_offset] & 0x3) << bit_offset)
RECURSIVE ReadLengthLoop(_, _, _, _, _, _)
ReadLengthLoop(rows, i, stop, value, w, ct) ==
    IF i >= stop THEN value
    ELSE ReadLengthLoop(
            rows, i + 2, stop,
            WOr(value, ShlU32(ReadChunk(rows, i, w, ct), HeaderBitOffset(i, stop))),
            w, ct)

\* buffer[pos] |= ((pixel[color_offset] & 0x3) << bit_offset)
OrChunk(old, chunk, bit_offset) == BitOr(old, Shl(chunk, bit_offset))

\* the loops "read in file name" and "read in data": buffer is the malloc'ed
\* block with whatever it held, pos the index of the byte being assembled
RECURSIVE ReadBytesLoop(_, _, _, _, _, _, _)
ReadBytesLoop(rows, i, stop, buffer, pos, w, ct) ==
    IF i >= stop THEN buffer
    ELSE ReadBytesLoop(
            rows, i + 2, stop,
            [buffer EXCEPT ![pos + 1] =
                OrChunk(@, ReadChunk(rows, i, w, ct), BitOffset(i))],
            IF BitOffset(i) = 0 THEN pos + 1 ELSE pos,
            w, ct)

\* end_pos = SIG_SIZE_BITS * 2 + data_filename_length * 8: uint32_t
\* arithmetic, converted to size_t
NameEndPos(name_length) ==
    ZeroExt(WAdd(Digits(SIG_SIZE_BITS * 2, U32Digits), WMul8(name_length)),
            SizeTDigits)

\* end_pos = SIG_SIZE_BITS * 2 + data_filename_length * 8 + data_file_size * 8
DataEndPos(name_length, file_size) ==
    ZeroExt(WAdd(WAdd(Digits(SIG_SIZE_BITS * 2, U32Digits), WMul8(name_length)),
                 WMul8(file_size)),
            SizeTDigits)

\* A loop "for (i = start; i < end; i += 2)" over even positions reads the
\* pixel (end - 2) / 6 last; it leaves the raster when that is no pixel of it.
LoopLeavesGrid(start, end, w, h) ==
    /\ WLt(start, end)
    /\ WLt(MaxDataBits(w, h), end)

\* the positions of such a loop that address pixels of the raster
LoopPositions(start, end, w, h) ==
    IF ~WLt(start, end) \/ ~WLt(start, MaxDataBits(w, h)) THEN {}
    ELSE LET last == IF WLt(MaxDataBits(w, h), end) THEN w * h * 6
                     ELSE WToNat(end)
         IN  {i \in WToNat(start)..(last - 1) : i % 2 = 0}

\* number of bytes a byte loop assembles when it stays inside the raster
LoopBytes(start, end) ==
    IF WLt(start, end) THEN (WToNat(end) - WToNat(start)) \div 8 ELSE 0

Addresses(positions, w, ct) ==
    {<<PixelY(i, w), SampleOffset(i, w, ct)>> : i \in positions}

\* What malloc returns is not initialised: byte k of a fresh block is
\* heap[k mod Len(heap)] for one of these contents.
HeapContents == {<<0>>, <<165>>, <<0, 255>>}
RECURSIVE FreshFrom(_, _, _)
FreshFrom(heap, k, n) ==
    IF k > n THEN <<>>
    ELSE <<heap[((k - 1) % Len(heap)) + 1]>> \o FreshFrom(heap, k + 1, n)

FreshBlock(heap, n) == FreshFrom(heap, 1, n)

\* What follows the file name block in memory, up to the first zero byte:
\* the block is not terminated, fopen and access read on.
StringTails == {<<>>, <<126>>}

\* The bytes of a block of n bytes that the loop did not assemble (a block
\* is longer than what the loop writes when n * 8 wraps); the first two.
BlockRest(heap, written, n) ==
    IF ~WLt(Digits(written, U32Digits), n) THEN <<>>
    ELSE IF ~WLt(Digits(written + 1, U32Digits), n)
    THEN FreshFrom(heap, written + 1, written + 1)
    ELSE FreshFrom(heap, written + 1, written + 2)

\* the C string at the start of bytes: what access and fopen take as name
RECURSIVE CString(_)
CString(bytes) ==
    IF bytes = <<>> \/ Head(bytes) = 0 THEN <<>>
    ELSE <<Head(bytes)>> \o CString(Tail(bytes))

\* Reading row_pointers[y] for y >= height is undefined: the run is killed or
\* goes on with arbitrary values.
OutsideOutcomes == {"segfault", "garbage"}

HeaderStart == Digits(0, SizeTDigits)
HeaderEnd == Digits(SIG_SIZE_BITS * 2, SizeTDigits)

\* read_data after the header: the file name, then the data.  The locals are
\* bound with \E over one-element sets, which is LET evaluated once.
ReadBody(name_length, file_size) ==
    \E name_end \in {NameEndPos(name_length)},
       data_end \in {DataEndPos(name_length, file_size)} :
    \E header_reads \in {LoopPositions(HeaderStart, HeaderEnd, width, height)},
       name_reads \in {LoopPositions(HeaderEnd, name_end, width, height)},
       data_reads \in {LoopPositions(name_end, data_end, width, height)} :
       /\ data_filename_length' = name_length
       /\ data_file_size' = file_size
       /\ IF LoopLeavesGrid(HeaderEnd, name_end, width, height)
          THEN /\ rd_status' \in OutsideOutcomes
               /\ rd_reads' = Addresses(header_reads \cup name_reads,
                                        width, color_type)
               /\ UNCHANGED <<rd_filename, rd_data>>
          ELSE \E heap \in HeapContents, tail \in StringTails :
               \E name_bytes \in {LoopBytes(HeaderEnd, name_end)} :
               /\ rd_filename' =
                     CString(ReadBytesLoop(row_pointers, SIG_SIZE_BITS * 2,
                                           SIG_SIZE_BITS * 2 + 8 * name_bytes,
                                           FreshBlock(heap, name_bytes),
                                           0, width, color_type)
                             \o BlockRest(heap, name_bytes, name_length)
                             \o tail)
               /\ rd_reads' = Addresses(header_reads \cup name_reads
                                            \cup data_reads,
                                        width, color_type)
               /\ IF LoopLeavesGrid(name_end, data_end, width, height)
                  THEN /\ rd_status' \in OutsideOutcomes
                       /\ UNCHANGED rd_data
                  ELSE /\ rd_status' = "done"
                       /\ rd_data' =
                             IF LoopBytes(name_end, data_end) = 0
                             THEN <<>>
                             ELSE ReadBytesLoop(row_pointers,
                                     WToNat(name_end), WToNat(data_end),
                                     FreshBlock(heap,
                                         LoopBytes(name_end, data_end)),
                                     0, width, color_type)

ReadData ==
    /\ rd_status = "none"
    /\ IF ~ColorTypeAccepted(color_type)
       THEN /\ rd_status' = "abort_color_type"
            /\ UNCHANGED <<data_filename_length, data_file_size, rd_filename,
                           rd_data, rd_reads>>
       ELSE IF LoopLeavesGrid(HeaderStart, HeaderEnd, width, height)
       THEN /\ rd_status' \in OutsideOutcomes
            /\ rd_reads' = Addresses(LoopPositions(HeaderStart, HeaderEnd,
                                                   width, height),
                                     width, color_type)
            /\ UNCHANGED <<data_filename_length, data_file_size, rd_filename,
                           rd_data>>
       ELSE \E name_length \in
                  {ReadLengthLoop(row_pointers, 0, SIG_SIZE_BITS, ZeroU32,
                                  width, color_type)},
               file_size \in
                  {ReadLengthLoop(row_pointers, SIG_SIZE_BITS,
                                  SIG_SIZE_BITS * 2, ZeroU32, width, color_type)} :
               ReadBody(name_length, file_size)
    /\ UNCHANGED <<width, height, color_type, bit_depth, row_pointers, in_rows,
                   data_filename, data_file, wr_status, signature,
                   max_data_bits, required_data_bits, wr_chunks>>

Next == WriteData \/ ReadData

Spec == Init /\ [][Next]_vars

\* ====================================================== the properties
\* Vocabulary of the specification document, independent of the code above.

\* locate(slot_index, width) of the Channel Address Mapper
LocateRow(n, w) == (n \div 3) \div w
LocateCol(n, w) == (n \div 3) % w
LocateChannel(n) == n % 3

\* the 2-bit slots a raster of w * h pixels offers
Slots(w, h) == 0..(w * h * 3 - 1)

\* offset in its row of channel ch of the pixel in column col
SampleAt(col, ch, ct) == col * Channels(ct) + ch

\* (8 + filename_length + payload_length) * 8 as an exact integer (64 bit
\* digits: no value below 2^32 makes it wrap)
ExactRequiredBits ==
    WMul8(WAdd(Digits(8 + Len(data_filename), SizeTDigits),
               ZeroExt(data_file.size, SizeTDigits)))

CapacityBits == Digits(width * height * 6, SizeTDigits)

Fits == ~WLt(CapacityBits, ExactRequiredBits)

\* the slots n of the raster that carry a chunk of the bitstream,
\* n < 4 * (8 + L + P), and the samples locate() gives them, as
\* <<row, offset in the row>>
SlotsBelow(bits) ==
    {n \in Slots(width, height) : WLt(Digits(2 * n, SizeTDigits), bits)}

ChunkSlots == SlotsBelow(ExactRequiredBits)

LocatedSample(n) ==
    <<LocateRow(n, width),
      SampleAt(LocateCol(n, width), LocateChannel(n), color_type)>>

\* byte k (from 0) of the bitstream: signature bytes, then the payload
StreamByte(k) ==
    IF k < 8 + Len(data_filename) THEN signature[k + 1]
    ELSE FileByte(data_file, k - 8 - Len(data_filename))

\* chunk n of the bitstream: bits 7-2c and 6-2c of its byte, c = n mod 4
StreamChunk(n) == (StreamByte(n \div 4) \div Pow2(6 - 2 * (n % 4))) % 4

Supported == ColorTypeAccepted(color_type) /\ bit_depth = 8

SigBuilt == wr_status \in {"written", "abort_too_small"}

HeaderDecoded ==
    /\ rd_status \notin {"none", "abort_color_type"}
    /\ ~LoopLeavesGrid(HeaderStart, HeaderEnd, width, height)

\* the four bytes the byte loops' formula assembles from the chunks at bit
\* positions from..from+30, in a zeroed block
BodyBytes(from) ==
    ReadBytesLoop(row_pointers, from, from + SIG_SIZE_BITS, Fill(0, U32Digits),
                  0, width, color_type)

\* the uint32_t whose big-endian bytes are b
BigEndian(b) == <<b[4], b[3], b[2], b[1]>>

\* C8: generate_signature returns 8 + L and fills bytes 0..3 with L, most
\* significant byte first, bytes 4..7 with the payload length, most
\* significant byte first, and bytes 8.. with the file name, no terminator.
C8_SignatureLayout ==
    SigBuilt =>
        LET L == Len(data_filename)
            P == data_file.size
        IN  /\ sig_length(data_filename) = 8 + L
            /\ Len(signature) = 8 + L
            /\ \A k \in 1..4 :
                  /\ signature[k] = (L \div (256 ^ (4 - k))) % 256
                  /\ signature[4 + k] = P[5 - k]
            /\ SubSeq(signature, 9, 8 + L) = data_filename

C8_Witness ==
    /\ SigBuilt
    /\ Len(data_filename) = 2
    /\ data_file.size = WAdd(HalfGiB, Digits(1, U32Digits))

\* C9: the value the header loops compute (chunk at bit position i shifted to
\* 30 - i, resp. 62 - i) is the big-endian integer of the four bytes the byte
\* loops' formula assembles from the same chunks; after an embed both are the
\* lengths generate_signature serialised.
C9_HeaderEquivalence ==
    HeaderDecoded =>
        /\ data_filename_length = BigEndian(BodyBytes(0))
        /\ data_file_size = BigEndian(BodyBytes(SIG_SIZE_BITS))
        /\ wr_status = "written" =>
              /\ data_filename_length = Digits(Len(data_filename), U32Digits)
              /\ data_file_size = data_file.size

C9_Witness ==
    /\ HeaderDecoded
    /\ wr_status = "written"
    /\ data_file_size = WAdd(HalfGiB, Digits(1, U32Digits))
    /\ data_filename_length = Digits(2, U32Digits)

\* C4: after an embed, a sample keeps its top 6 bits, and a sample that
\* changed at all is addressed by a chunk number below N = 4*(8+L+P); every
\* sample addressed by a slot >= N, and every other one, is as in the input.
C4_EmbedFrame ==
    (wr_status = "written" /\ bit_depth = 8) =>
        \E addressed \in {{LocatedSample(n) : n \in ChunkSlots}} :
            \A y \in 0..(height - 1) :
                \A o \in 0..(width * Channels(color_type) - 1) :
                    /\ row_pointers[y][o] \div 4 = in_rows[y][o] \div 4
                    /\ row_pointers[y][o] # in_rows[y][o] =>
                          <<y, o>> \in addressed

C4_Witness ==
    /\ wr_status = "written"
    /\ bit_depth = 8
    /\ ChunkSlots # Slots(width, height)
    /\ \E y \in 0..(height - 1) :
          \E o \in 0..(width * Channels(color_type) - 1) :
              row_pointers[y][o] # in_rows[y][o]

\* C5: in an RGBA raster the embed leaves the alpha sample (channel index 3)
\* of every pixel as it was, and the extract reads no sample at channel
\* index 3.
C5_AlphaUntouched ==
    (color_type = PNG_COLOR_TYPE_RGBA /\ bit_depth = 8) =>
        /\ \A y \in 0..(height - 1) :
              \A x \in 0..(width - 1) :
                  row_pointers[y][x * 4 + 3] = in_rows[y][x * 4 + 3]
        /\ \A a \in rd_reads : a[2] % 4 # 3

C5_Witness ==
    /\ color_type = PNG_COLOR_TYPE_RGBA
    /\ bit_depth = 8
    /\ wr_status = "written"
    /\ row_pointers # in_rows
    /\ rd_status = "done"
    /\ Cardinality(rd_reads) > SIG_SIZE_BITS

\* C1: round trip.  When the bitstream fits the raster, read_data on the
\* image write_data produced yields the file name (same length, same bytes)
\* and the payload bytes, whatever the blocks it assembles them in held.
C1_RoundTrip ==
    (wr_status = "written" /\ rd_status # "none" /\ bit_depth = 8 /\ Fits) =>
        /\ rd_status = "done"
        /\ data_filename_length = Digits(Len(data_filename), U32Digits)
        /\ rd_filename = data_filename
        /\ data_file_size = data_file.size
        /\ rd_data = data_file.head

\* C2: write_data succeeds whenever (8+L+P)*8 <= width*height*6 and otherwise
\* fails with the raster as it was read.
C2_CapacityDecision ==
    (wr_status # "none" /\ Supported) =>
        /\ Fits => wr_status = "written"
        /\ ~Fits => (wr_status = "abort_too_small" /\ row_pointers = in_rows)

\* C3: when the decoded lengths give 64 + (L+P)*8 > width*height*6, read_data
\* fails (TruncatedOrCorrupt), reads no sample outside the raster and returns
\* neither a file name nor a payload.
DecodedBits ==
    WAdd(Digits(SIG_SIZE_BITS * 2, SizeTDigits),
         WMul8(WAdd(ZeroExt(data_filename_length, SizeTDigits),
                    ZeroExt(data_file_size, SizeTDigits))))

C3_HeaderValidated ==
    (HeaderDecoded /\ bit_depth = 8 /\ WLt(CapacityBits, DecodedBits)) =>
        /\ rd_status = "truncated_or_corrupt"
        /\ rd_status \notin OutsideOutcomes
        /\ rd_filename = <<>>
        /\ rd_data = <<>>

\* C6: after an embed every chunk n < 4*|B| of the bitstream B (signature,
\* then payload) is in the two low-order bits of the sample at row
\* (n div 3) div width, column (n div 3) mod width, channel n mod 3.
C6_WirePlacement ==
    (wr_status = "written" /\ bit_depth = 8) =>
        /\ Fits
        /\ \A n \in ChunkSlots :
              row_pointers[LocatedSample(n)[1]][LocatedSample(n)[2]] % 4
                 = StreamChunk(n)

\* C7: an image that is not 8 bit RGB or RGBA is rejected by write_data and
\* read_data before any sample is read or written through the mapping.
C7_UnsupportedRejected ==
    ~Supported =>
        /\ wr_status \in {"none", "abort_color_type", "abort_bit_depth"}
        /\ rd_status \in {"none", "abort_color_type", "abort_bit_depth"}
        /\ row_pointers = in_rows
        /\ rd_reads = {}

\* C10: the number of bits write_data compares with the capacity is the exact
\* integer (S + P) * 8, so a payload that does not fit never passes the test
\* and a passed test stores 4 * (S + P) chunks.
C10_NoWraparound ==
    SigBuilt =>
        /\ required_data_bits = ExactRequiredBits
        /\ wr_status = "written" =>
              (Fits /\ Digits(2 * wr_chunks, SizeTDigits) = ExactRequiredBits)

====
